---------------------------- MODULE Spec2Model ----------------------------
(***************************************************************************)
(* The irrigation decision pipeline of swapnilkurhade/irrigation:          *)
(* run_irrigation_system of app/irrigation_project/irrigation/controller.py *)
(* with the functions it calls, and the wall clock those functions read.   *)
(*                                                                         *)
(* Numbers.  Python computes in binary floating point; the model computes  *)
(* in decimal fixed point.  Every quantity is an integer count of a unit   *)
(* that its definition names ("1e-4 kPa" means the integer 15687 stands    *)
(* for 1.5687 kPa).  Inside the Penman-Monteith formula products and       *)
(* quotients are cut to the unit of the result; from ETo on, the products  *)
(* (ETc, water volume) and the division by the flow rate are exact and     *)
(* only the division by the efficiency is cut.  The sensor record carries  *)
(* every field in tenths, as the sample reading is written (18.5, 12.5).   *)
(*                                                                         *)
(* Time.  The wall clock `now` counts hours since 2025-01-01 00:00.        *)
(***************************************************************************)
EXTENDS Integers, Sequences, FiniteSets, TLC

VARIABLES
    now,          \* datetime.datetime.now(): hours since 2025-01-01 00:00
    sensor_data,  \* the dict read_sensor_data() returns
    pc,           \* position of run_irrigation_system
    response,     \* the dict run_irrigation_system builds and returns
    locals,       \* unrounded local variables of run_irrigation_system
    calls,        \* the functions run_irrigation_system has called, in order
    clock_reads,  \* the values datetime.now() returned to this evaluation
    error,        \* the exception that left run_irrigation_system, or "none"
    prev          \* the evaluation before this one: its outcome and clock reads

vars == <<now, sensor_data, pc, response, locals, calls, clock_reads, error, prev>>

----------------------------------------------------------------------------
(* Module constants, controller.py lines 7-18.                             *)

FIELD_AREA == 1000

MOTOR_FLOW_RATE == 1000

\* 0.85, in hundredths
IRRIGATION_EFFICIENCY == 85

\* 40 %
MOISTURE_THRESHOLD_MIN == 40

\* week -> Kc in tenths (0.3 is 3)
KC_VALUES ==
    (1 :> 3) @@ (2 :> 4) @@ (3 :> 5) @@ (4 :> 7) @@
    (5 :> 8) @@ (6 :> 9) @@ (7 :> 10) @@ (8 :> 11) @@
    (9 :> 11) @@ (10 :> 10) @@ (11 :> 9) @@ (12 :> 8)

\* KC_VALUES.get(crop_week, 1.0), in tenths
KC_get(crop_week) ==
    IF crop_week \in DOMAIN KC_VALUES THEN KC_VALUES[crop_week] ELSE 10

\* max(KC_VALUES.keys())
MaxKcWeek == CHOOSE w \in DOMAIN KC_VALUES : \A v \in DOMAIN KC_VALUES : v <= w

Max(a, b) == IF a >= b THEN a ELSE b

Min(a, b) == IF a <= b THEN a ELSE b

Abs(a) == IF a < 0 THEN -a ELSE a

----------------------------------------------------------------------------
(* Fixed-point helpers.                                                    *)

\* floor(a * 10^digits / b) for a >= 0, b > 0, by long division: no
\* intermediate value exceeds 10 * b.
RECURSIVE LongDivNat(_, _, _)
LongDivNat(a, b, digits) ==
    IF digits = 0 THEN a \div b
    ELSE LET q == a \div b
             r == a % b
         IN  q * 10^digits + LongDivNat(r * 10, b, digits - 1)

\* a / b with `digits` more decimal digits than a has, rounded toward zero.
\* The caller has excluded b = 0 (Python raises ZeroDivisionError there).
LongDiv(a, b, digits) ==
    LET sign == IF (a < 0) = (b < 0) THEN 1 ELSE -1
    IN  sign * LongDivNat(Abs(a), Abs(b), digits)

\* floor(sqrt(n)) for n >= 0, by bisection on [lo, hi)
RECURSIVE ISqrtBetween(_, _, _)
ISqrtBetween(n, lo, hi) ==
    IF hi - lo <= 1 THEN lo
    ELSE LET mid == (lo + hi) \div 2
         IN  IF mid * mid <= n THEN ISqrtBetween(n, mid, hi)
             ELSE ISqrtBetween(n, lo, mid)

ISqrt(n) == ISqrtBetween(n, 0, 46341)

\* math.pi, in 1e-4 rad
PI4 == 31416

\* math.exp(x): x in 1e-4, result in 1e-4.  exp(x) = exp(x/4)^4, the inner
\* one by its Taylor series to the 7th power.
RECURSIVE ExpTerms(_, _, _)
ExpTerms(y, term, n) ==
    IF n > 7 THEN 0
    ELSE term + ExpTerms(y, (term * y) \div (n * 10^4), n + 1)

math_exp(x) ==
    LET y  == x \div 4
        e1 == ExpTerms(y, 10^4, 1)
        e2 == (e1 * e1) \div 10^4
    IN  (e2 * e2) \div 10^4

\* sin on [-pi/2, pi/2] by its Taylor series to the 11th power; 1e-4 units
RECURSIVE SinTerms(_, _, _)
SinTerms(x2, term, n) ==
    IF n > 11 THEN 0
    ELSE term + SinTerms(x2, -((term * x2) \div ((n + 1) * (n + 2) * 10^4)), n + 2)

\* math.sin(x): x in 1e-4 rad (any angle), result in 1e-4
math_sin(x) ==
    LET turn == 2 * PI4
        a    == ((x + PI4) % turn) - PI4           \* in [-pi, pi)
        b    == IF a > PI4 \div 2 THEN PI4 - a
                ELSE IF a < -(PI4 \div 2) THEN -PI4 - a
                ELSE a                             \* in [-pi/2, pi/2]
    IN  SinTerms((b * b) \div 10^4, b, 1)

\* math.cos(x)
math_cos(x) == math_sin(x + PI4 \div 2)

\* math.tan(x), in 1e-4
math_tan(x) == LongDiv(math_sin(x), math_cos(x), 4)

\* The angle in [0, pi] whose cosine is c (|c| <= 1, 1e-4 units), by
\* bisection: cos decreases on [0, pi].
RECURSIVE AcosBetween(_, _, _)
AcosBetween(c, lo, hi) ==
    IF hi - lo <= 1 THEN lo
    ELSE LET mid == (lo + hi) \div 2
         IN  IF math_cos(mid) >= c THEN AcosBetween(c, mid, hi)
             ELSE AcosBetween(c, lo, mid)

\* A value a function returns, or the exception it raises instead.
Ok(v) == [ok |-> TRUE, val |-> v, err |-> "none"]

Raise(e) == [ok |-> FALSE, val |-> 0, err |-> e]

\* math.acos(c): ValueError ("math domain error") outside [-1, 1]
math_acos(c) ==
    IF c < -(10^4) \/ c > 10^4 THEN Raise("ValueError")
    ELSE Ok(AcosBetween(c, 0, PI4 + 1))

\* math_sqrt with a negative argument taken as 0 instead of an error
math_sqrt_lenient(v) == Ok(ISqrt(Max(0, v) * 10^4))

\* math.sqrt(v): v in 1e-4, result in 1e-4; ValueError for v < 0
math_sqrt(v) ==
    IF v < 0 THEN Raise("ValueError")
    ELSE Ok(ISqrt(v * 10^4))

----------------------------------------------------------------------------
(* calculate_eto_penman_monteith, controller.py lines 40-75.               *)

\* line 47: meters above sea level
altitude == 100

\* line 48: degrees North
latitude == 40

\* line 41: (TC_min + TC_max) / 2, in 1e-2 degC
temp_avg(sd) == (sd.TC_min + sd.TC_max) * 5

\* line 44: (HUM_min + HUM_max) / 2, in 1e-2 %
hum_avg(sd) == (sd.HUM_min + sd.HUM_max) * 5

\* line 45: ANE_max * 1000 / 3600, in 1e-4 m/s
wind_speed(sd) == (sd.ANE_max * 1000 * 1000) \div 3600

\* line 46: LUX_max * 0.0079, in 1e-3 MJ/m2/day
solar_radiation(sd) == (sd.LUX_max * 79) \div 100

\* line 50: 101.3 * ((293 - 0.0065 * altitude) / 293) ** 5.26 with
\* altitude = 100 is the constant 100.1235 kPa; in 1e-4 kPa
atm_pressure == 1001235

\* line 51: 0.000665 * atm_pressure, in 1e-5 kPa/degC
gamma == (665 * atm_pressure) \div 10^5

\* lines 52, 53, 57: 0.6108 * math.exp((17.27 * T) / (T + 237.3)) for
\* T in 1e-2 degC with T + 237.3 /= 0; in 1e-4 kPa
sat_vp_at(T) ==
    (6108 * math_exp(LongDiv(1727 * T, T + 23730, 2))) \div 10^4

\* line 57: (4098 * sat_vp_at(temp_avg)) / ((temp_avg + 237.3) ** 2),
\* in 1e-5 kPa/degC
delta_at(T) ==
    LongDiv(4098 * sat_vp_at(T), ((T + 23730) * (T + 23730)) \div 10^5, 0)

\* 2 * math.pi * day_of_year / 365, in 1e-4 rad
year_angle(day_of_year) == (2 * PI4 * day_of_year) \div 365

\* line 58: 0.409 * math.sin(2 * math.pi * day_of_year / 365 - 1.39)
solar_declination(day_of_year) ==
    (4090 * math_sin(year_angle(day_of_year) - 13900)) \div 10^4

\* latitude * math.pi / 180, in 1e-4 rad
latitude_rad == (latitude * PI4) \div 180

\* line 59, the argument of math.acos:
\* -math.tan(latitude * math.pi / 180) * math.tan(solar_declination)
sunset_hour_angle_arg(day_of_year) ==
    -((math_tan(latitude_rad) * math_tan(solar_declination(day_of_year)))
        \div 10^4)

\* line 60: 1 + 0.033 * math.cos(2 * math.pi * day_of_year / 365)
inv_dist(day_of_year) ==
    10^4 + (330 * math_cos(year_angle(day_of_year))) \div 10^4

\* lines 61-63: extraterrestrial radiation for a sunset hour angle ws,
\* in 1e-3 MJ/m2/day
ra_at(day_of_year, ws) ==
    LET decl == solar_declination(day_of_year)
        c    == (((LongDiv(24 * 60, PI4, 6) * 82) \div 100)
                    * inv_dist(day_of_year)) \div 10^4
        a    == (((ws * math_sin(latitude_rad)) \div 10^4)
                    * math_sin(decl)) \div 10^4
        b    == ((((math_cos(latitude_rad) * math_cos(decl)) \div 10^4)
                    * math_sin(ws))) \div 10^4
    IN  (c * (a + b)) \div 10^4

\* line 64: (0.75 + 2e-5 * altitude) * ra
rso_of(ra) == ((7500 + (2 * altitude) \div 10) * ra) \div 10^4

\* (T / 100) ** 4 for T in 1e-2 K, in 1e-3: tmin_k ** 4 itself is 1e8
\* times this, and line 69's 4.903e-9 is 0.4903 / 1e8
hecto_kelvin_pow4(T) ==
    LET sq == (T * T) \div 10^5
    IN  (sq * sq) \div 10^3

\* lines 52-54: (sat_vp_tmin + sat_vp_tmax) / 2, in 1e-4 kPa
sat_vp_of(sd) ==
    (sat_vp_at(sd.TC_min * 10) + sat_vp_at(sd.TC_max * 10)) \div 2

\* line 55: (sat_vp * hum_avg) / 100, in 1e-4 kPa
actual_vp_of(sd) == (sat_vp_of(sd) * hum_avg(sd)) \div 10^4

\* lines 40-74: numerator / denominator before the clamp of line 75, in
\* 1e-4 mm/day, or the exception the line that fails raises
penman_monteith_quotient(sd, day_of_year) ==
    LET t_avg    == temp_avg(sd)
        temp_min == sd.TC_min * 10
        temp_max == sd.TC_max * 10
        wind     == wind_speed(sd)
        rs       == solar_radiation(sd)
    IN
    IF temp_min + 23730 = 0 \/ temp_max + 23730 = 0 \/ t_avg + 23730 = 0
    THEN Raise("ZeroDivisionError")                        \* lines 52, 53, 57
    ELSE
    LET sat_vp    == sat_vp_of(sd)
        actual_vp == actual_vp_of(sd)
        vpd       == sat_vp - actual_vp
        delta     == delta_at(t_avg)
        ws        == math_acos(sunset_hour_angle_arg(day_of_year))
    IN
    IF ~ws.ok THEN ws                                      \* line 59
    ELSE
    LET ra      == ra_at(day_of_year, ws.val)
        rso     == rso_of(ra)
        rns     == (77 * rs) \div 100
        tmin_k  == temp_min + 27316
        tmax_k  == temp_max + 27316
        root    == math_sqrt(actual_vp)
    IN
    IF ~root.ok THEN root                                  \* line 69
    ELSE IF rso = 0 THEN Raise("ZeroDivisionError")        \* line 69
    ELSE
    LET stefan == (4903 * ((hecto_kelvin_pow4(tmin_k)
                            + hecto_kelvin_pow4(tmax_k)) \div 2)) \div 10^4
        humid  == 3400 - (1400 * root.val) \div 10^4
        cloud  == LongDiv((135 * rs) \div 100, rso, 3) - 350
        rnl    == ((((stefan * humid) \div 10^4)) * cloud) \div 10^3
        rn     == rns - rnl
        g      == 0
    IN
    IF t_avg + 27300 = 0 THEN Raise("ZeroDivisionError")   \* line 72
    ELSE
    LET radiative   == ((((408 * delta) \div 10^3)) * ((rn - g) \div 10))
                          \div 10^3
        aerodynamic == ((((((gamma * LongDiv(900 * 100, t_avg + 27300, 4))
                            \div 10^4) * (wind \div 10)) \div 10^3) \div 10)
                          * vpd) \div 10^4
        numerator   == radiative + aerodynamic
        denominator == delta + (gamma * (10^4 + (34 * wind) \div 100))
                                  \div 10^4
    IN
    IF denominator = 0 THEN Raise("ZeroDivisionError")     \* line 74
    ELSE Ok(LongDiv(numerator, denominator, 5))

\* calculate_eto_penman_monteith without the clamp of line 75
calculate_eto_unclamped(sd, day_of_year) ==
    penman_monteith_quotient(sd, day_of_year)

\* line 75: return max(0, eto); in 1e-4 mm/day
calculate_eto_penman_monteith(sd, day_of_year) ==
    LET eto == penman_monteith_quotient(sd, day_of_year)
    IN  IF eto.ok THEN Ok(Max(0, eto.val)) ELSE eto

----------------------------------------------------------------------------
(* The wall clock and the calendar of datetime.                            *)

IsLeap(y) == (y % 4 = 0 /\ y % 100 /= 0) \/ y % 400 = 0

DaysInYear(y) == IF IsLeap(y) THEN 366 ELSE 365

DaysInMonth(y, m) ==
    IF m = 2 THEN (IF IsLeap(y) THEN 29 ELSE 28)
    ELSE IF m \in {4, 6, 9, 11} THEN 30 ELSE 31

RECURSIVE DaysBeforeYear(_)
DaysBeforeYear(y) ==
    IF y <= 2025 THEN 0 ELSE DaysBeforeYear(y - 1) + DaysInYear(y - 1)

RECURSIVE DaysBeforeMonth(_, _)
DaysBeforeMonth(y, m) ==
    IF m <= 1 THEN 0 ELSE DaysBeforeMonth(y, m - 1) + DaysInMonth(y, m - 1)

\* datetime.datetime(y, m, d, h) as hours since 2025-01-01 00:00
datetime(y, m, d, h) ==
    (DaysBeforeYear(y) + DaysBeforeMonth(y, m) + (d - 1)) * 24 + h

RECURSIVE YearDay(_, _)
YearDay(days, y) ==
    IF days < DaysInYear(y) THEN days + 1
    ELSE YearDay(days - DaysInYear(y), y + 1)

\* t.timetuple().tm_yday for a clock value t >= 0
tm_yday(t) == YearDay(t \div 24, 2025)

\* controller.py line 31
planting_date == datetime(2025, 3, 15, 0)

\* get_crop_week without the min(..., max(KC_VALUES.keys())) of line 34
get_crop_week_unclamped(current_date) ==
    (((current_date - planting_date) \div 24) \div 7) + 1

\* controller.py lines 30-34, for the value current_date that
\* datetime.datetime.now() returns: timedelta.days and // both round down
get_crop_week(current_date) ==
    LET days_difference == (current_date - planting_date) \div 24
    IN  Min((days_difference \div 7) + 1, MaxKcWeek)

----------------------------------------------------------------------------
(* The pure functions of the pipeline, controller.py lines 36-38, 77-89.   *)

\* round(x, n) for x counted in units of which `step` make one 10^-n:
\* Python rounds to the nearest, a tie to the even neighbour
RoundTo(x, step) ==
    LET q == x \div step
        r == x % step
    IN  IF 2 * r < step THEN q * step
        ELSE IF 2 * r > step THEN (q + 1) * step
        ELSE IF q % 2 = 0 THEN q * step ELSE (q + 1) * step

\* lines 37, 96: (SOIL_B_min + SOIL_C_min) / 2, in 1e-2 %
avg_soil_moisture_of(sd) == (sd.SOIL_B_min + sd.SOIL_C_min) * 5

\* is_irrigation_required with <= for <
is_irrigation_required_inclusive(sd) ==
    avg_soil_moisture_of(sd) <= MOISTURE_THRESHOLD_MIN * 100

\* is_irrigation_required against MOISTURE_THRESHOLD_MAX (60, line 12)
is_irrigation_required_upper(sd) ==
    avg_soil_moisture_of(sd) < 60 * 100

\* lines 36-38
is_irrigation_required(sd) ==
    avg_soil_moisture_of(sd) < MOISTURE_THRESHOLD_MIN * 100

\* calculate_etc returning the value rounded for display
calculate_etc_rounded(eto, crop_week) ==
    RoundTo(eto * KC_get(crop_week), 1000)

\* lines 77-79: eto * kc; eto in 1e-4 mm, kc in tenths, result in 1e-5 mm
calculate_etc(eto, crop_week) ==
    LET kc == KC_get(crop_week)
    IN  eto * kc

\* calculate_irrigation_requirements without the max(0, ...) of line 83
calculate_irrigation_requirements_unclamped(etc, rainfall) ==
    LongDiv((etc - rainfall * 8 * 1000) * 10, IRRIGATION_EFFICIENCY, 0)

\* calculate_irrigation_requirements fed the etc as rounded for the report
calculate_irrigation_requirements_of_rounded(etc, rainfall) ==
    Max(0, LongDiv((RoundTo(etc, 1000) - rainfall * 8 * 1000) * 10,
                   IRRIGATION_EFFICIENCY, 0))

\* lines 81-83: etc in 1e-5 mm, rainfall in 1e-1 mm, result in 1e-4 mm
calculate_irrigation_requirements(etc, rainfall) ==
    LET effective_rainfall == rainfall * 8              \* 1e-2 mm
    IN  Max(0, LongDiv((etc - effective_rainfall * 1000) * 10,
                       IRRIGATION_EFFICIENCY, 0))

\* calculate_water_volume fed the requirement as rounded for the report
calculate_water_volume_of_rounded(irrigation_req) ==
    RoundTo(irrigation_req, 100) * FIELD_AREA

\* lines 85-86: 1e-4 mm in, 1e-4 L out
calculate_water_volume(irrigation_req) == irrigation_req * FIELD_AREA

\* lines 88-89: 1e-4 L in, 1e-4 min out
calculate_pump_time(water_volume) ==
    LongDiv(water_volume, MOTOR_FLOW_RATE, 0)

----------------------------------------------------------------------------
(* Inputs.                                                                 *)

\* The last year whose midsummer day the clock can show.
LastYear == 2026

\* The instants the wall clock can show: before the planting date, on it,
\* at a week's edge, past the tabulated weeks, in winter, and the same
\* calendar day one year on.
Instants ==
    { datetime(2025, 1, 1, 0), datetime(2025, 3, 14, 12),
      datetime(2025, 3, 15, 0), datetime(2025, 3, 22, 0),
      datetime(2025, 11, 5, 9), datetime(2025, 12, 21, 0) }
    \cup { datetime(y, 6, 21, 0) : y \in 2025..LastYear }

\* (SOIL_B_min, SOIL_C_min): the sample (average 34), an average of
\* exactly 40, of 39.5 and of 41
Soils == { <<350, 330>>, <<400, 400>>, <<390, 400>>, <<420, 400>> }

\* The sample weather of read_sensor_data, a cold damp calm day, and the
\* sample with a humidity probe that reports -1
Weathers ==
    { [TC_min |-> 185, TC_max |-> 283, HUM_min |-> 400, HUM_max |-> 650,
       ANE_max |-> 125, LUX_max |-> 650000],
      [TC_min |-> 20, TC_max |-> 80, HUM_min |-> 900, HUM_max |-> 1000,
       ANE_max |-> 0, LUX_max |-> 20000],
      [TC_min |-> 185, TC_max |-> 283, HUM_min |-> -10, HUM_max |-> -10,
       ANE_max |-> 125, LUX_max |-> 650000] }

\* PLV2_max: none, 5 mm, 50 mm
Rains == { 0, 50, 500 }

\* lines 20-28: the dicts read_sensor_data can return (the fields the
\* pipeline reads)
read_sensor_data ==
    { [TC_min |-> w.TC_min, TC_max |-> w.TC_max,
       HUM_min |-> w.HUM_min, HUM_max |-> w.HUM_max,
       ANE_max |-> w.ANE_max, LUX_max |-> w.LUX_max,
       SOIL_B_min |-> s[1], SOIL_C_min |-> s[2], PLV2_max |-> r] :
      w \in Weathers, s \in Soils, r \in Rains }

----------------------------------------------------------------------------
(* run_irrigation_system, controller.py lines 91-131, one action for each  *)
(* function it calls; pc names the call that comes next.  locals holds the *)
(* unrounded values in the units their functions name; response holds each *)
(* value as round() leaves it, in the unit of the local it rounds.         *)

\* an empty dict
EmptyDict == [k \in {} |-> 0]

\* what is known of the evaluation before the first one
NoEvaluation ==
    [outcome |-> "none", response |-> EmptyDict, clock_reads |-> <<>>,
     error |-> "none"]

Init ==
    /\ now \in Instants
    /\ sensor_data \in read_sensor_data
    /\ pc = "idle"
    /\ response = EmptyDict
    /\ locals = EmptyDict
    /\ calls = <<>>
    /\ clock_reads = <<>>
    /\ error = "none"
    /\ prev = NoEvaluation

\* The wall clock moves on, at any point of an evaluation or between two.
Tick ==
    /\ \E t \in Instants : t > now /\ now' = t
    /\ UNCHANGED <<sensor_data, pc, response, locals, calls, clock_reads,
                   error, prev>>

\* lines 91-94: a request arrives; the evaluation before it, if any, has
\* returned or raised
Request ==
    /\ pc \in {"idle", "returned", "raised"}
    /\ prev' = IF pc = "idle" THEN prev
               ELSE [outcome |-> pc, response |-> response,
                     clock_reads |-> clock_reads, error |-> error]
    /\ response' = ("sensor_data" :> sensor_data)
    /\ locals' = EmptyDict
    /\ calls' = <<"read_sensor_data">>
    /\ clock_reads' = <<>>
    /\ error' = "none"
    /\ pc' = "is_irrigation_required"
    /\ UNCHANGED <<now, sensor_data>>

\* lines 96-104
Gate ==
    /\ pc = "is_irrigation_required"
    /\ LET avg_soil_moisture == avg_soil_moisture_of(sensor_data)
           irrigation_needed == is_irrigation_required(sensor_data)
           gate == ("avg_soil_moisture" :> RoundTo(avg_soil_moisture, 10))
                   @@ ("moisture_threshold" :> MOISTURE_THRESHOLD_MIN)
                   @@ ("irrigation_needed" :> irrigation_needed)
       IN  /\ locals' = ("avg_soil_moisture" :> avg_soil_moisture)
                        @@ ("irrigation_needed" :> irrigation_needed)
           /\ calls' = Append(calls, "is_irrigation_required")
           /\ IF ~irrigation_needed
              THEN /\ response' = response @@ gate
                        @@ ("message" :> [text |-> "not required"])
                   /\ pc' = "returned"
              ELSE /\ response' = response @@ gate
                   /\ pc' = "calculate_eto_penman_monteith"
    /\ UNCHANGED <<now, sensor_data, clock_reads, error, prev>>

\* lines 106-107; line 49 reads the clock.  An exception leaves
\* run_irrigation_system, which catches none: no response is returned.
Eto ==
    /\ pc = "calculate_eto_penman_monteith"
    /\ LET eto == calculate_eto_penman_monteith(sensor_data, tm_yday(now))
       IN  IF eto.ok
           THEN /\ locals' = locals @@ ("eto" :> eto.val)
                /\ response' = response @@ ("eto" :> RoundTo(eto.val, 100))
                /\ pc' = "get_crop_week"
                /\ error' = error
           ELSE /\ locals' = EmptyDict
                /\ response' = EmptyDict
                /\ pc' = "raised"
                /\ error' = eto.err
    /\ calls' = Append(calls, "calculate_eto_penman_monteith")
    /\ clock_reads' = Append(clock_reads, now)
    /\ UNCHANGED <<now, sensor_data, prev>>

\* lines 109-112; line 32 reads the clock
CropWeek ==
    /\ pc = "get_crop_week"
    /\ LET crop_week == get_crop_week(now)
           kc        == KC_get(crop_week)
       IN  /\ locals' = locals @@ ("crop_week" :> crop_week) @@ ("kc" :> kc)
           /\ response' = response @@ ("crop_week" :> crop_week)
                                   @@ ("kc" :> kc)
    /\ calls' = Append(calls, "get_crop_week")
    /\ clock_reads' = Append(clock_reads, now)
    /\ pc' = "calculate_etc"
    /\ UNCHANGED <<now, sensor_data, error, prev>>

\* Etc run a second time before the evaluation moves on
Etc_reentered ==
    /\ pc = "calculate_etc"
    /\ LET etc == calculate_etc(locals["eto"], locals["crop_week"])
       IN  /\ locals' = locals @@ ("etc" :> etc)
           /\ response' = response @@ ("etc" :> RoundTo(etc, 1000))
    /\ calls' = Append(calls, "calculate_etc")
    /\ pc' = IF \E i \in 1..Len(calls) : calls[i] = "calculate_etc"
             THEN "calculate_irrigation_requirements"
             ELSE "calculate_etc"
    /\ UNCHANGED <<now, sensor_data, clock_reads, error, prev>>

\* lines 114-115
Etc ==
    /\ pc = "calculate_etc"
    /\ LET etc == calculate_etc(locals["eto"], locals["crop_week"])
       IN  /\ locals' = locals @@ ("etc" :> etc)
           /\ response' = response @@ ("etc" :> RoundTo(etc, 1000))
    /\ calls' = Append(calls, "calculate_etc")
    /\ pc' = "calculate_irrigation_requirements"
    /\ UNCHANGED <<now, sensor_data, clock_reads, error, prev>>

\* lines 117-121
IrrigationReq ==
    /\ pc = "calculate_irrigation_requirements"
    /\ LET rainfall == sensor_data.PLV2_max
           irrigation_req ==
               calculate_irrigation_requirements(locals["etc"], rainfall)
       IN  /\ locals' = locals @@ ("rainfall" :> rainfall)
                               @@ ("irrigation_req" :> irrigation_req)
           /\ response' = response @@ ("rainfall" :> rainfall)
                 @@ ("irrigation_requirement" :> RoundTo(irrigation_req, 100))
    /\ calls' = Append(calls, "calculate_irrigation_requirements")
    /\ pc' = "calculate_water_volume"
    /\ UNCHANGED <<now, sensor_data, clock_reads, error, prev>>

\* lines 123-124
WaterVolume ==
    /\ pc = "calculate_water_volume"
    /\ LET water_volume == calculate_water_volume(locals["irrigation_req"])
       IN  /\ locals' = locals @@ ("water_volume" :> water_volume)
           /\ response' = response
                 @@ ("water_volume" :> RoundTo(water_volume, 100))
    /\ calls' = Append(calls, "calculate_water_volume")
    /\ pc' = "calculate_pump_time"
    /\ UNCHANGED <<now, sensor_data, clock_reads, error, prev>>

\* lines 126-131
PumpTime ==
    /\ pc = "calculate_pump_time"
    /\ LET pump_time == calculate_pump_time(locals["water_volume"])
       IN  /\ locals' = locals @@ ("pump_time" :> pump_time)
           /\ response' = response
                 @@ ("pump_time" :> RoundTo(pump_time, 100))
                 @@ ("message" :>
                       [text |-> "run pump",
                        minutes |-> RoundTo(pump_time, 10^4),
                        liters |-> RoundTo(locals["water_volume"], 100)])
    /\ calls' = Append(calls, "calculate_pump_time")
    /\ pc' = "returned"
    /\ UNCHANGED <<now, sensor_data, clock_reads, error, prev>>

Next ==
    \/ Tick
    \/ Request
    \/ Gate
    \/ Eto
    \/ CropWeek
    \/ Etc
    \/ IrrigationReq
    \/ WaterVolume
    \/ PumpTime

Spec == Init /\ [][Next]_vars

----------------------------------------------------------------------------
(* calculate_etc applied on its own to an ETo and to its double.           *)

\* The weeks handed to calculate_etc run from -1 to MaxProbeWeek.
MaxProbeWeek == 14

\* ETo values in 1e-4 mm/day
ProbeEtos == { 0, 1, 5, 49, 50, 51, 3683, 12345, 200766, 608605 }

InitEtc ==
    /\ now = 0
    /\ sensor_data = EmptyDict
    /\ pc = "probe"
    /\ response = EmptyDict
    /\ locals \in { ("eto" :> e) @@ ("crop_week" :> w) :
                    e \in ProbeEtos, w \in -1..MaxProbeWeek }
    /\ calls = <<>>
    /\ clock_reads = <<>>
    /\ error = "none"
    /\ prev = NoEvaluation

ApplyEtc ==
    /\ pc = "probe"
    /\ locals' = locals
          @@ ("etc" :> calculate_etc(locals["eto"], locals["crop_week"]))
          @@ ("etc_of_double" :>
                calculate_etc(2 * locals["eto"], locals["crop_week"]))
    /\ calls' = <<"calculate_etc", "calculate_etc">>
    /\ pc' = "probed"
    /\ UNCHANGED <<now, sensor_data, response, clock_reads, error, prev>>

NextEtc == ApplyEtc

SpecEtc == InitEtc /\ [][NextEtc]_vars

----------------------------------------------------------------------------
(* src/irrigation.py: the same pipeline as a script.                       *)
(* Its calculate_eto_penman_monteith evaluates, statement by statement, the *)
(* expressions of controller.py lines 41-74 with altitude = 100 and        *)
(* latitude = 40, so the operators for those expressions are shared; its   *)
(* print calls write to stdout and change nothing the pipeline reads.      *)

\* line 20
FIELD_AREA_irrigation == 1000

\* line 21
MOTOR_FLOW_RATE_irrigation == 1000

\* line 22: 0.85, in hundredths
IRRIGATION_EFFICIENCY_irrigation == 85

\* line 24
MOISTURE_THRESHOLD_MIN_irrigation == 40

\* lines 27-31, in tenths
KC_VALUES_irrigation ==
    [week \in 1..12 |->
        CASE week = 1 -> 3   []  week = 2 -> 4   []  week = 3 -> 5
          [] week = 4 -> 7   []  week = 5 -> 8   []  week = 6 -> 9
          [] week = 7 -> 10  []  week = 8 -> 11  []  week = 9 -> 11
          [] week = 10 -> 10 []  week = 11 -> 9  []  week = 12 -> 8]

\* lines 93, 128: KC_VALUES.get(crop_week, 1.0)
KC_get_irrigation(crop_week) ==
    IF crop_week \in DOMAIN KC_VALUES_irrigation
    THEN KC_VALUES_irrigation[crop_week]
    ELSE 10

\* lines 49-53
is_irrigation_required_irrigation(sd) ==
    LET avg_soil_moisture_min == (sd.SOIL_B_min + sd.SOIL_C_min) * 5
    IN  avg_soil_moisture_min < MOISTURE_THRESHOLD_MIN_irrigation * 100

\* lines 55-89: numerator / denominator, in 1e-4 mm/day, or the
\* exception the statement that fails raises
penman_monteith_quotient_irrigation(sd, day_of_year) ==
    LET t_avg    == temp_avg(sd)
        temp_min == sd.TC_min * 10
        temp_max == sd.TC_max * 10
        wind     == wind_speed(sd)
        rs       == solar_radiation(sd)
        gma == (665 * atm_pressure) \div 10^5
    IN
    IF temp_min + 23730 = 0 \/ temp_max + 23730 = 0 \/ t_avg + 23730 = 0
    THEN Raise("ZeroDivisionError")
    ELSE
    LET sat_vp    == sat_vp_of(sd)
        actual_vp == actual_vp_of(sd)
        vpd       == sat_vp - actual_vp
        delta     == delta_at(t_avg)
        sunset_hour_angle == math_acos(sunset_hour_angle_arg(day_of_year))
    IN
    IF ~sunset_hour_angle.ok THEN sunset_hour_angle
    ELSE
    LET ra      == ra_at(day_of_year, sunset_hour_angle.val)
        rso     == rso_of(ra)
        rns     == (77 * rs) \div 100
        tmin_k  == temp_min + 27316
        tmax_k  == temp_max + 27316
        root    == math_sqrt(actual_vp)
    IN
    IF ~root.ok THEN root
    ELSE IF rso = 0 THEN Raise("ZeroDivisionError")
    ELSE
    LET stefan == (4903 * ((hecto_kelvin_pow4(tmin_k)
                            + hecto_kelvin_pow4(tmax_k)) \div 2)) \div 10^4
        humid  == 3400 - (1400 * root.val) \div 10^4
        cloud  == LongDiv((135 * rs) \div 100, rso, 3) - 350
        rnl    == ((((stefan * humid) \div 10^4)) * cloud) \div 10^3
        rn     == rns - rnl
        g      == 0
    IN
    IF t_avg + 27300 = 0 THEN Raise("ZeroDivisionError")
    ELSE
    LET radiative   == ((((408 * delta) \div 10^3)) * ((rn - g) \div 10))
                          \div 10^3
        aerodynamic == ((((((gma
                              * LongDiv(900 * 100, t_avg + 27300, 4))
                            \div 10^4) * (wind \div 10)) \div 10^3) \div 10)
                          * vpd) \div 10^4
        numerator   == radiative + aerodynamic
        denominator == delta + (gma * (10^4 + (34 * wind) \div 100))
                                  \div 10^4
    IN
    IF denominator = 0 THEN Raise("ZeroDivisionError")
    ELSE Ok(LongDiv(numerator, denominator, 5))

\* lines 55-90, the day of the year of line 64 given
calculate_eto_penman_monteith_irrigation(sd, day_of_year) ==
    LET eto == penman_monteith_quotient_irrigation(sd, day_of_year)
    IN  IF eto.ok THEN Ok(Max(0, eto.val)) ELSE eto

\* lines 92-94: eto in 1e-4 mm, result in 1e-5 mm
calculate_etc_irrigation(eto, crop_week) ==
    LET kc  == KC_get_irrigation(crop_week)
        etc == eto * kc
    IN  etc

\* lines 96-98: etc in 1e-5 mm, rainfall in 1e-1 mm, result in 1e-4 mm
calculate_irrigation_requirements_irrigation(etc, rainfall) ==
    LET effective_rainfall == rainfall * 8
        irrigation_req ==
            Max(0, LongDiv((etc - effective_rainfall * 1000) * 10,
                           IRRIGATION_EFFICIENCY_irrigation, 0))
    IN  irrigation_req

\* lines 100-101
calculate_water_volume_irrigation(irrigation_req) ==
    LET water_volume == irrigation_req * FIELD_AREA_irrigation
    IN  water_volume

\* lines 103-104
calculate_pump_time_irrigation(water_volume) ==
    LET pump_time == LongDiv(water_volume, MOTOR_FLOW_RATE_irrigation, 0)
    IN  pump_time

\* lines 106-152: main, given the crop week and what its call of
\* calculate_eto_penman_monteith returns (a call it does not make when
\* irrigation is not needed); what it decides and computes, or the
\* exception that ends it
main_irrigation(sd, eto, crop_week) ==
    LET irrigation_needed == is_irrigation_required_irrigation(sd)
    IN
    IF ~irrigation_needed
    THEN ("outcome" :> "returned") @@ ("irrigation_needed" :> FALSE)
    ELSE
    IF ~eto.ok
    THEN ("outcome" :> "raised") @@ ("error" :> eto.err)
    ELSE
    LET kc             == KC_get_irrigation(crop_week)
        etc            == calculate_etc_irrigation(eto.val, crop_week)
        rainfall       == sd.PLV2_max
        irrigation_req ==
            calculate_irrigation_requirements_irrigation(etc, rainfall)
        water_volume   == calculate_water_volume_irrigation(irrigation_req)
        pump_time      == calculate_pump_time_irrigation(water_volume)
    IN  ("outcome" :> "returned") @@ ("irrigation_needed" :> TRUE)
        @@ ("eto" :> eto.val) @@ ("kc" :> kc) @@ ("etc" :> etc)
        @@ ("irrigation_req" :> irrigation_req)
        @@ ("water_volume" :> water_volume) @@ ("pump_time" :> pump_time)

----------------------------------------------------------------------------
(* src/irrigation-control-system.py: the same pipeline as a script.        *)
(* Its calculate_eto_penman_monteith evaluates, statement by statement, the *)
(* expressions of controller.py lines 41-74 with altitude = 100 and        *)
(* latitude = 40, so the operators for those expressions are shared; its   *)
(* print calls write to stdout and change nothing the pipeline reads.      *)

\* line 22
FIELD_AREA_control_system == 1000

\* line 23
MOTOR_FLOW_RATE_control_system == 1000

\* line 24: 0.85, in hundredths
IRRIGATION_EFFICIENCY_control_system == 85

\* line 27
MOISTURE_THRESHOLD_MIN_control_system == 40

\* lines 32-45, in tenths
KC_VALUES_control_system ==
    [week \in 1..12 |->
        CASE week = 1 -> 3   []  week = 2 -> 4   []  week = 3 -> 5
          [] week = 4 -> 7   []  week = 5 -> 8   []  week = 6 -> 9
          [] week = 7 -> 10  []  week = 8 -> 11  []  week = 9 -> 11
          [] week = 10 -> 10 []  week = 11 -> 9  []  week = 12 -> 8]

\* lines 212, 299: KC_VALUES.get(crop_week, 1.0)
KC_get_control_system(crop_week) ==
    IF crop_week \in DOMAIN KC_VALUES_control_system
    THEN KC_VALUES_control_system[crop_week]
    ELSE 10

\* lines 96-116
is_irrigation_required_control_system(sd) ==
    LET avg_soil_moisture_min == (sd.SOIL_B_min + sd.SOIL_C_min) * 5
    IN  IF avg_soil_moisture_min < MOISTURE_THRESHOLD_MIN_control_system * 100
        THEN TRUE
        ELSE FALSE

\* lines 118-196: numerator / denominator, in 1e-4 mm/day, or the
\* exception the statement that fails raises
penman_monteith_quotient_control_system(sd, day_of_year) ==
    LET t_avg    == temp_avg(sd)
        temp_min == sd.TC_min * 10
        temp_max == sd.TC_max * 10
        wind     == wind_speed(sd)
        rs       == solar_radiation(sd)
        psychrometric_constant == (665 * atm_pressure) \div 10^5
    IN
    IF temp_min + 23730 = 0 \/ temp_max + 23730 = 0 \/ t_avg + 23730 = 0
    THEN Raise("ZeroDivisionError")
    ELSE
    LET sat_vp    == sat_vp_of(sd)
        actual_vp == actual_vp_of(sd)
        vpd       == sat_vp - actual_vp
        delta     == delta_at(t_avg)
        sunset_hour_angle == math_acos(sunset_hour_angle_arg(day_of_year))
    IN
    IF ~sunset_hour_angle.ok THEN sunset_hour_angle
    ELSE
    LET ra      == ra_at(day_of_year, sunset_hour_angle.val)
        rso     == rso_of(ra)
        rns     == (77 * rs) \div 100
        tmin_k  == temp_min + 27316
        tmax_k  == temp_max + 27316
        root    == math_sqrt(actual_vp)
    IN
    IF ~root.ok THEN root
    ELSE IF rso = 0 THEN Raise("ZeroDivisionError")
    ELSE
    LET stefan == (4903 * ((hecto_kelvin_pow4(tmin_k)
                            + hecto_kelvin_pow4(tmax_k)) \div 2)) \div 10^4
        humid  == 3400 - (1400 * root.val) \div 10^4
        cloud  == LongDiv((135 * rs) \div 100, rso, 3) - 350
        rnl    == ((((stefan * humid) \div 10^4)) * cloud) \div 10^3
        rn     == rns - rnl
        g      == 0
    IN
    IF t_avg + 27300 = 0 THEN Raise("ZeroDivisionError")
    ELSE
    LET radiative   == ((((408 * delta) \div 10^3)) * ((rn - g) \div 10))
                          \div 10^3
        aerodynamic == ((((((psychrometric_constant
                              * LongDiv(900 * 100, t_avg + 27300, 4))
                            \div 10^4) * (wind \div 10)) \div 10^3) \div 10)
                          * vpd) \div 10^4
        numerator   == radiative + aerodynamic
        denominator ==
            delta + (psychrometric_constant * (10^4 + (34 * wind) \div 100))
                        \div 10^4
    IN
    IF denominator = 0 THEN Raise("ZeroDivisionError")
    ELSE Ok(LongDiv(numerator, denominator, 5))

\* lines 118-198, the day of the year of line 139 given
calculate_eto_penman_monteith_control_system(sd, day_of_year) ==
    LET eto == penman_monteith_quotient_control_system(sd, day_of_year)
    IN  IF eto.ok THEN Ok(Max(0, eto.val)) ELSE eto

\* lines 200-217: eto in 1e-4 mm, result in 1e-5 mm
calculate_etc_control_system(eto, crop_week) ==
    LET kc  == KC_get_control_system(crop_week)
        etc == eto * kc
    IN  etc

\* calculate_irrigation_requirements with all of the rainfall effective
calculate_irrigation_requirements_all_rain(etc, rainfall) ==
    Max(0, LongDiv((etc - rainfall * 10 * 1000) * 10, 85, 0))

\* lines 219-237: etc in 1e-5 mm, rainfall in 1e-1 mm, result in 1e-4 mm
calculate_irrigation_requirements_control_system(etc, rainfall) ==
    LET effective_rainfall == rainfall * 8
        irrigation_req ==
            Max(0, LongDiv((etc - effective_rainfall * 1000) * 10,
                           IRRIGATION_EFFICIENCY_control_system, 0))
    IN  irrigation_req

\* lines 239-253
calculate_water_volume_control_system(irrigation_req) ==
    LET water_volume == irrigation_req * FIELD_AREA_control_system
    IN  water_volume

\* lines 255-268
calculate_pump_time_control_system(water_volume) ==
    LET pump_time == LongDiv(water_volume, MOTOR_FLOW_RATE_control_system, 0)
    IN  pump_time

\* lines 270-330: main, given the crop week and what its call of
\* calculate_eto_penman_monteith returns (a call it does not make when
\* irrigation is not needed); what it decides and computes, or the
\* exception that ends it
main_control_system(sd, eto, crop_week) ==
    LET irrigation_needed == is_irrigation_required_control_system(sd)
    IN
    IF ~irrigation_needed
    THEN ("outcome" :> "returned") @@ ("irrigation_needed" :> FALSE)
    ELSE
    IF ~eto.ok
    THEN ("outcome" :> "raised") @@ ("error" :> eto.err)
    ELSE
    LET kc             == KC_get_control_system(crop_week)
        etc            == calculate_etc_control_system(eto.val, crop_week)
        rainfall       == sd.PLV2_max
        irrigation_req ==
            calculate_irrigation_requirements_control_system(etc, rainfall)
        water_volume   == calculate_water_volume_control_system(irrigation_req)
        pump_time      == calculate_pump_time_control_system(water_volume)
    IN  ("outcome" :> "returned") @@ ("irrigation_needed" :> TRUE)
        @@ ("eto" :> eto.val) @@ ("kc" :> kc) @@ ("etc" :> etc)
        @@ ("irrigation_req" :> irrigation_req)
        @@ ("water_volume" :> water_volume) @@ ("pump_time" :> pump_time)

----------------------------------------------------------------------------
(* The three implementations on the same reading, day of the year and crop *)
(* week.                                                                   *)

\* controller.py lines 91-131: run_irrigation_system, given the crop week
\* and what its call of calculate_eto_penman_monteith returns (a call it
\* does not make when irrigation is not needed); what it decides and
\* computes, or the exception that ends it
run_irrigation_system(sd, eto, crop_week) ==
    LET irrigation_needed == is_irrigation_required(sd)
    IN
    IF ~irrigation_needed
    THEN ("outcome" :> "returned") @@ ("irrigation_needed" :> FALSE)
    ELSE
    IF ~eto.ok
    THEN ("outcome" :> "raised") @@ ("error" :> eto.err)
    ELSE
    LET kc             == KC_get(crop_week)
        etc            == calculate_etc(eto.val, crop_week)
        rainfall       == sd.PLV2_max
        irrigation_req == calculate_irrigation_requirements(etc, rainfall)
        water_volume   == calculate_water_volume(irrigation_req)
        pump_time      == calculate_pump_time(water_volume)
    IN  ("outcome" :> "returned") @@ ("irrigation_needed" :> TRUE)
        @@ ("eto" :> eto.val) @@ ("kc" :> kc) @@ ("etc" :> etc)
        @@ ("irrigation_req" :> irrigation_req)
        @@ ("water_volume" :> water_volume) @@ ("pump_time" :> pump_time)

\* The crop weeks given run from 0 to MaxGivenWeek, and -10.
MaxGivenWeek == 13

GivenWeeks == {-10} \cup 0..MaxGivenWeek

\* 1 January, 15 March, 21 June, 5 November, 21 December
GivenDays == { 1, 74, 172, 309, 355 }

InitImplementations ==
    /\ now = 0
    /\ sensor_data \in read_sensor_data
    /\ pc = "compare"
    /\ response = EmptyDict
    /\ locals \in { ("day_of_year" :> d) @@ ("crop_week" :> w) :
                    d \in GivenDays, w \in GivenWeeks }
    /\ calls = <<>>
    /\ clock_reads = <<>>
    /\ error = "none"
    /\ prev = NoEvaluation

\* each implementation's calculate_eto_penman_monteith on the reading and
\* the day of the year
EvaluateEto ==
    /\ pc = "compare"
    /\ LET d == locals["day_of_year"]
       IN  locals' = locals
             @@ ("eto_controller" :>
                   calculate_eto_penman_monteith(sensor_data, d))
             @@ ("eto_irrigation" :>
                   calculate_eto_penman_monteith_irrigation(sensor_data, d))
             @@ ("eto_control_system" :>
                   calculate_eto_penman_monteith_control_system(sensor_data, d))
    /\ calls' = << "calculate_eto_penman_monteith",
                   "calculate_eto_penman_monteith",
                   "calculate_eto_penman_monteith" >>
    /\ pc' = "run"
    /\ UNCHANGED <<now, sensor_data, response, clock_reads, error, prev>>

\* each implementation's pipeline around that call
RunImplementations ==
    /\ pc = "run"
    /\ LET w == locals["crop_week"]
       IN  locals' = locals
             @@ ("controller" :>
                   run_irrigation_system(sensor_data,
                                         locals["eto_controller"], w))
             @@ ("irrigation" :>
                   main_irrigation(sensor_data, locals["eto_irrigation"], w))
             @@ ("control_system" :>
                   main_control_system(sensor_data,
                                       locals["eto_control_system"], w))
    /\ calls' = calls \o <<"run_irrigation_system", "main", "main">>
    /\ pc' = "compared"
    /\ UNCHANGED <<now, sensor_data, response, clock_reads, error, prev>>

NextImplementations ==
    \/ EvaluateEto
    \/ RunImplementations

SpecImplementations == InitImplementations /\ [][NextImplementations]_vars

----------------------------------------------------------------------------
(* The claims.                                                             *)

\* SOIL_B_min + SOIL_C_min in tenths: the average is below 40 exactly
\* when this sum is below 800
SoilSum == sensor_data.SOIL_B_min + sensor_data.SOIL_C_min

\* whole weeks since the planting date at clock value t, plus one
ElapsedWeek(t) == (((t - planting_date) \div 24) \div 7) + 1

EtoFields ==
    { "eto", "crop_week", "kc", "etc", "rainfall", "irrigation_requirement",
      "water_volume", "pump_time" }

Called(f) == \E i \in 1..Len(calls) : calls[i] = f

\* C1: once the decision gate has run, irrigation_needed is true exactly
\* when (SOIL_B_min + SOIL_C_min) / 2 is strictly below 40; an average of
\* exactly 40 gives irrigation_needed = false.
C1_GateIsStrictlyBelowThreshold ==
    "irrigation_needed" \in DOMAIN response =>
        /\ response["irrigation_needed"] = (SoilSum < 800)
        /\ (SoilSum = 800 => response["irrigation_needed"] = FALSE)

C1_Witness ==
    /\ "irrigation_needed" \in DOMAIN response
    /\ SoilSum = 800
    /\ response["irrigation_needed"] = FALSE

\* C2: when the average soil moisture is at or above the threshold, the
\* evaluation never calls calculate_eto_penman_monteith nor any later
\* stage, never reads the clock, and returns a response with
\* irrigation_needed = false and none of the ETo-derived fields.
C2_ClosedGateSkipsEto ==
    SoilSum >= 800 =>
        /\ ~Called("calculate_eto_penman_monteith")
        /\ pc \in {"idle", "is_irrigation_required", "returned"}
        /\ clock_reads = <<>>
        /\ pc = "returned" =>
              /\ response["irrigation_needed"] = FALSE
              /\ DOMAIN response \cap EtoFields = {}

C2_Witness ==
    /\ pc = "returned"
    /\ SoilSum >= 800
    /\ response["irrigation_needed"] = FALSE
    /\ "message" \in DOMAIN response

\* C3: when the average soil moisture is strictly below the threshold, a
\* returned response has irrigation_needed = true and an eto >= 0, also
\* when the Penman-Monteith quotient itself is negative.
C3_OpenGateEtoNonNegative ==
    (pc = "returned" /\ SoilSum < 800) =>
        /\ response["irrigation_needed"] = TRUE
        /\ response["eto"] >= 0
        /\ locals["eto"] >= 0

C3_Witness ==
    /\ pc = "returned"
    /\ SoilSum < 800
    /\ penman_monteith_quotient(sensor_data, tm_yday(clock_reads[1])).val < 0
    /\ response["eto"] = 0

\* C4: the irrigation requirement is (etc - 0.8 * rainfall) / 0.85 when
\* that is positive and 0 otherwise, so it is never negative; when
\* 0.8 * rainfall >= etc the requirement, the water volume and the pump
\* time are all exactly 0.
C4_RequirementClampedAtZero ==
    "irrigation_req" \in DOMAIN locals =>
        LET surplus == locals["etc"] - sensor_data.PLV2_max * 8 * 1000
            req     == locals["irrigation_req"]
        IN  /\ req >= 0
            /\ response["irrigation_requirement"] >= 0
            /\ surplus > 0 =>
                  /\ 85 * req <= 10 * surplus
                  /\ 10 * surplus < 85 * (req + 1)
            /\ surplus <= 0 =>
                  /\ req = 0
                  /\ response["irrigation_requirement"] = 0
                  /\ "water_volume" \in DOMAIN locals =>
                        /\ locals["water_volume"] = 0
                        /\ response["water_volume"] = 0
                  /\ "pump_time" \in DOMAIN locals =>
                        /\ locals["pump_time"] = 0
                        /\ response["pump_time"] = 0

C4_Witness ==
    /\ pc = "returned"
    /\ "pump_time" \in DOMAIN locals
    /\ locals["etc"] > 0
    /\ sensor_data.PLV2_max * 8 * 1000 >= locals["etc"]
    /\ locals["pump_time"] = 0

C6_CropWeekWithinTable ==
    "crop_week" \in DOMAIN locals =>
        /\ locals["crop_week"] \in 1..12
        /\ locals["crop_week"] = Max(1, Min(ElapsedWeek(clock_reads[2]), 12))

EtoIntermediatesDefined(sd, day_of_year) ==
    LET arg == sunset_hour_angle_arg(day_of_year)
    IN  /\ arg >= -(10^4)
        /\ arg <= 10^4
        /\ actual_vp_of(sd) >= 0
        /\ rso_of(ra_at(day_of_year, math_acos(arg).val)) /= 0

C9_ReportedVolumeIsRequirementTimesArea ==
    (pc = "returned" /\ response["irrigation_needed"]) =>
        /\ response["water_volume"] = response["irrigation_requirement"] * 1000
        /\ response["pump_time"] * 1000 = response["water_volume"]

\* C9 as amended: the unrounded water volume is the unrounded irrigation
\* requirement times 1000 and the unrounded pump time is that volume
\* divided by 1000; the response holds each of the three rounded to two
\* decimals on its own.
C9_VolumeIsRequirementTimesArea ==
    (pc = "returned" /\ response["irrigation_needed"]) =>
        /\ locals["water_volume"] = locals["irrigation_req"] * 1000
        /\ locals["pump_time"] * 1000 = locals["water_volume"]
        /\ response["irrigation_requirement"]
              = RoundTo(locals["irrigation_req"], 100)
        /\ response["water_volume"]
              = RoundTo(locals["irrigation_req"] * 1000, 100)
        /\ response["pump_time"] = RoundTo(locals["pump_time"], 100)

C9_Witness ==
    /\ pc = "returned"
    /\ response["irrigation_needed"]
    /\ locals["irrigation_req"] > 0
    /\ locals["irrigation_req"] % 100 /= 0
    /\ locals["water_volume"] = locals["irrigation_req"] * 1000

\* C10: for a fixed crop week, calculate_etc of twice an ETo is twice
\* calculate_etc of that ETo.
C10_EtcLinearInEto ==
    pc = "probed" => locals["etc_of_double"] = 2 * locals["etc"]

C10_Witness ==
    /\ pc = "probed"
    /\ locals["eto"] = 12345
    /\ locals["crop_week"] = 5
    /\ locals["etc"] = 98760
    /\ locals["etc_of_double"] = 197520

\* C11: display rounding never feeds back.  At every point of an
\* evaluation each stage's value is computed from the unrounded value of
\* the stage before it: etc from the unrounded eto, the irrigation
\* requirement from the unrounded etc, the water volume from the unrounded
\* requirement, the pump time from the unrounded volume; the message
\* rounds the unrounded pump time and volume.
C11_StagesChainUnroundedValues ==
    pc \notin {"idle", "raised"} =>
        /\ "etc" \in DOMAIN locals =>
              locals["etc"] = locals["eto"] * locals["kc"]
        /\ "irrigation_req" \in DOMAIN locals =>
              LET net == (locals["etc"] - locals["rainfall"] * 8000) * 10
                  req == locals["irrigation_req"]
              IN  IF net <= 0 THEN req = 0
                  ELSE /\ req * 85 <= net
                       /\ net < (req + 1) * 85
        /\ "water_volume" \in DOMAIN locals =>
              locals["water_volume"] = locals["irrigation_req"] * 1000
        /\ "pump_time" \in DOMAIN locals =>
              /\ locals["pump_time"] * 1000 = locals["water_volume"]
              /\ response["message"].minutes
                    = RoundTo(locals["pump_time"], 10000)
              /\ response["message"].liters
                    = RoundTo(locals["water_volume"], 100)

\* an evaluation whose report differs from the chained values at every
\* rounded stage, and where chaining the rounded eto or the rounded etc
\* would have given another etc and another requirement
C11_Witness ==
    /\ pc = "returned"
    /\ response["irrigation_needed"]
    /\ response["eto"] # locals["eto"]
    /\ response["etc"] # locals["etc"]
    /\ response["irrigation_requirement"] # locals["irrigation_req"]
    /\ response["eto"] * locals["kc"] # locals["etc"]
    /\ (((response["etc"] - locals["rainfall"] * 8000) * 10) \div 85)
          # locals["irrigation_req"]
    /\ locals["pump_time"] > 0

\* the calls of a full evaluation, in the order of lines 93-126
StageOrder ==
    << "read_sensor_data", "is_irrigation_required",
       "calculate_eto_penman_monteith", "get_crop_week", "calculate_etc",
       "calculate_irrigation_requirements", "calculate_water_volume",
       "calculate_pump_time" >>

GateFields ==
    { "sensor_data", "avg_soil_moisture", "moisture_threshold",
      "irrigation_needed", "message" }

\* C12: the next call of an evaluation in flight is the one after the
\* calls made so far (every stage's only guard is that its turn has come),
\* so it ends after at most eight calls: it returns or it raises.  One
\* that returns is gate-closed or gate-open by the gate decision alone
\* (soil average below 40 or not); a gate-open one has run ETo, crop
\* week/Kc, ETc, irrigation requirement, water volume and pump time once
\* each in that order and its report has every field; no stage is run
\* twice or out of order at any point.
C12_EvaluationEndsClosedOrOpen ==
    /\ Len(calls) <= Len(StageOrder)
    /\ calls = SubSeq(StageOrder, 1, Len(calls))
    /\ pc \notin {"idle", "returned", "raised"} =>
          /\ Len(calls) \in 1..(Len(StageOrder) - 1)
          /\ pc = StageOrder[Len(calls) + 1]
    /\ pc = "returned" =>
          IF SoilSum < 800
          THEN /\ calls = StageOrder
               /\ response["irrigation_needed"]
               /\ DOMAIN response = GateFields \cup EtoFields
          ELSE /\ calls = SubSeq(StageOrder, 1, 2)
               /\ ~response["irrigation_needed"]
               /\ DOMAIN response = GateFields

\* a gate-open evaluation has returned after a gate-closed one
C12_Witness ==
    /\ pc = "returned"
    /\ calls = StageOrder
    /\ DOMAIN response = GateFields \cup EtoFields
    /\ prev.outcome = "returned"

\* C13: for the same sensor reading, day of the year and crop week,
\* run_irrigation_system of controller.py, main of irrigation.py and main
\* of irrigation-control-system.py take the same gate decision and compute
\* the same unrounded ETo, Kc, ETc, irrigation requirement, water volume
\* and pump time, or end with the same exception.
C13_ImplementationsAgree ==
    /\ pc \in {"run", "compared"} =>
          /\ locals["eto_irrigation"] = locals["eto_controller"]
          /\ locals["eto_control_system"] = locals["eto_controller"]
    /\ pc = "compared" =>
          /\ locals["irrigation"] = locals["controller"]
          /\ locals["control_system"] = locals["controller"]

\* the three have computed a positive pump time from a crop week of the
\* table
C13_Witness ==
    /\ pc = "compared"
    /\ locals["crop_week"] = 6
    /\ locals["controller"]["outcome"] = "returned"
    /\ locals["controller"]["irrigation_needed"]
    /\ locals["control_system"]["pump_time"] > 0
    /\ locals["irrigation"]["kc"] = 9


============================================================================
